---- MODULE Spec2Model ----
(***************************************************************************)
(* Model of the GraphQL resolver set of the family expense tracker.        *)
(* The relational store (tables users and expenses) is state; each         *)
(* resolver is an action whose atomic steps are the queries it awaits.     *)
(* Text values are sequences of one-character strings, so that trim() is   *)
(* computed, not assumed.                                                   *)
(***************************************************************************)
EXTENDS Integers, Sequences, FiniteSets, Bags, TLC

\* ---------------------------------------------------------------- bounds
MaxClock == 2
MaxPending == 1
MaxMessages == 3

\* ---------------------------------------------------------------- inputs
UserNames == {"asha"}
ExpenseNames == {"rent"}
\* amounts and descriptions a client sends to updateExpense
Amounts == {0, 50}
Descriptions == { <<" ", "a", "b", " ">>, <<" ", "n", "e", "w">> }
\* amounts a client sends to addExpense
AddAmounts == Amounts \cup {-5}
ClockValues == 1..MaxClock
\* texts a client sends to addMessage
Texts == {"hi", "yo"}
\* what the user types into the amount field
AmountTexts == { <<>>, <<"5", "0">> }

VARIABLES
    now,        \* the wall clock Date.now() reads
    users,      \* table users, in insertion order
    expenses,   \* table expenses, in insertion order
    pending,    \* addExpense calls between their SELECT and their INSERT
    last,       \* the latest step and, when it ended a call, the call's outcome
    messages,   \* the in-memory array messages
    ui          \* the state of the App component of the frontend

vars == <<now, users, expenses, pending, last, messages, ui>>

\* what the resolvers of the store leave alone
outside == <<messages, ui>>

\* ---------------------------------------------------------------- errors
UserNotFound == "User does not exist"
InvalidAmount == "Amount must be greater than 0"
InvalidDescription == "Description must be at least 3 characters long"
ExpenseNotFound == "Expense not found"
StoreError == "duplicate key value violates unique constraint"
NoError == ""
Null == <<>>

\* ---------------------------------------------------------------- helpers
\* Date.now().toString(): the decimal string of the clock value.
NewIdPrefixed(t) == "u" \o ToString(t)
NewId(t) == ToString(t)

\* the ids a client sends: every id the clock can have produced
IdArgs == {NewId(t) : t \in ClockValues}

Whitespace == {" ", "\t", "\n"}

RECURSIVE TrimStart(_)
TrimStart(s) ==
    IF s # <<>> /\ Head(s) \in Whitespace THEN TrimStart(Tail(s)) ELSE s

RECURSIVE TrimEnd(_)
TrimEnd(s) ==
    IF s # <<>> /\ s[Len(s)] \in Whitespace
    THEN TrimEnd(SubSeq(s, 1, Len(s) - 1))
    ELSE s

\* String.prototype.trim
TrimStartOnly(s) == TrimStart(s)
Trim(s) == TrimEnd(TrimStart(s))

\* a NUMERIC value as the driver hands it to the resolver: its decimal text
NumericText(n) == <<"numeric", n>>

\* Number(text): the number a decimal text denotes, a number as it is
Number(v) == <<"number", v[2]>>

\* a stored row as the driver returns it
DriverRow(r) == [r EXCEPT !.amount = NumericText(r.amount)]

\* SELECT id FROM users WHERE id = $1
SelectUser(userId) == SelectSeq(users, LAMBDA u : u.id = userId)

\* rows of a table with the given id
RowsWithId(rows, id) == SelectSeq(rows, LAMBDA r : r.id = id)

\* INSERT into a table whose id is its unique key: a stored id is rejected.
\* The table definitions are not among the sources; the key is the data
\* model's rule that ids are unique within their collection.
InsertRow(rows, row) ==
    IF RowsWithId(rows, row.id) # <<>> THEN rows ELSE Append(rows, row)

\* the creation time the store gives a row it inserts at clock value t
CreatedAt(t) == t

\* ORDER BY created_at DESC
RECURSIVE OrderByCreatedAtDesc(_)
OrderByCreatedAtDesc(rows) ==
    IF rows = <<>> THEN <<>>
    ELSE LET k == CHOOSE k \in DOMAIN rows :
                    \A j \in DOMAIN rows : rows[j].created_at <= rows[k].created_at
             rest == [j \in 1..(Len(rows) - 1) |->
                        IF j < k THEN rows[j] ELSE rows[j + 1]]
         IN <<rows[k]>> \o OrderByCreatedAtDesc(rest)

\* the orders in which a SELECT without ORDER BY may return rows
AnyOrder(rows) ==
    {[k \in DOMAIN rows |-> rows[p[k]]] : p \in Permutations(DOMAIN rows)}

\* serialization of a Float field of the schema: a number as it is, a numeric
\* text as the number it denotes
SerializeFloat(v) == IF v[1] = "number" THEN v[2] ELSE Number(v)[2]

\* an Expense a resolver returned, as the response carries it
ExpenseType(e) == [e EXCEPT !.amount = SerializeFloat(e.amount)]

\* SUM(amount): no value (the empty sequence) over no rows, else <<sum>>
RECURSIVE SqlSumSkipsLast(_)
SqlSumSkipsLast(rows) ==
    IF Len(rows) <= 1 THEN IF rows = <<>> THEN Null ELSE <<0>>
    ELSE <<Head(rows).amount + SqlSumSkipsLast(Tail(rows))[1]>>

RECURSIVE SqlSum(_)
SqlSum(rows) ==
    IF rows = <<>> THEN Null
    ELSE IF Len(rows) = 1 THEN <<Head(rows).amount>>
    ELSE <<Head(rows).amount + SqlSum(Tail(rows))[1]>>

\* COALESCE(v, d)
Coalesce(v, d) == IF v = Null THEN d ELSE v[1]

\* row -> Expense, amount as the driver gave it (addExpense, expenses)
ExpenseRaw(r) ==
    [id |-> r.id, name |-> r.name, amount |-> r.amount,
     description |-> r.description, userId |-> r.user_id]

\* row -> Expense, amount through Number (expensesByUser, updateExpense)
ExpenseNumWrongKey(r) ==
    [id |-> r.id, name |-> r.name, amount |-> Number(r.amount),
     description |-> r.description, userId |-> r.id]

ExpenseNum(r) ==
    [id |-> r.id, name |-> r.name, amount |-> Number(r.amount),
     description |-> r.description, userId |-> r.user_id]

\* ---------------------------------------------------------------- init
\* useState initial values of App, before its effect has run
InitialUi ==
    [name |-> "", amount |-> <<>>, description |-> <<>>, total |-> 0,
     expenses |-> <<>>, log |-> Null, pc |-> "idle",
     effects |-> {"loadExpenses", "handleTotalExpenses"}]

Init ==
    /\ now = 1
    /\ users = <<>>
    /\ expenses = <<>>
    /\ pending = EmptyBag
    /\ last = [op |-> "init"]
    /\ messages = <<>>
    /\ ui = InitialUi

\* the wall clock advances between calls
Tick ==
    /\ now < MaxClock
    /\ now' = now + 1
    /\ last' = [op |-> "tick"]
    /\ UNCHANGED <<users, expenses, pending>>
    /\ UNCHANGED outside

\* ---------------------------------------------------------------- addUser
addUser(name) ==
    /\ LET row == [id |-> NewId(now), name |-> name, created_at |-> CreatedAt(now)]
           dup == RowsWithId(users, row.id) # <<>>
       IN /\ users' = InsertRow(users, row)
          /\ last' = [op |-> "addUser",
                      error |-> IF dup THEN StoreError ELSE NoError,
                      ret |-> IF dup THEN Null ELSE [id |-> row.id, name |-> row.name]]
    /\ UNCHANGED <<now, expenses, pending>>
    /\ UNCHANGED outside

\* ---------------------------------------------------------------- addExpense
\* the checks of addExpense on the answer u of the user lookup
addExpenseErrorAmountFirst(input, u) ==
    IF input.amount <= 0 THEN InvalidAmount
    ELSE IF Len(u) = 0 THEN UserNotFound
    ELSE IF Len(Trim(input.description)) < 3 THEN InvalidDescription
    ELSE NoError

addExpenseErrorNegativeOnly(input, u) ==
    IF Len(u) = 0 THEN UserNotFound
    ELSE IF input.amount < 0 THEN InvalidAmount
    ELSE IF Len(Trim(input.description)) < 3 THEN InvalidDescription
    ELSE NoError

addExpenseErrorNoUserCheck(input, u) ==
    IF input.amount <= 0 THEN InvalidAmount
    ELSE IF Len(Trim(input.description)) < 3 THEN InvalidDescription
    ELSE NoError

addExpenseError(input, u) ==
    IF Len(u) = 0 THEN UserNotFound
    ELSE IF input.amount <= 0 THEN InvalidAmount
    ELSE IF Len(Trim(input.description)) < 3 THEN InvalidDescription
    ELSE NoError

\* first part of addExpense: the awaited user lookup, and the checks made on
\* its answer
addExpenseCheckResolver(input) ==
    /\ LET error == addExpenseError(input, SelectUser(input.userId))
       IN IF error # NoError
          THEN /\ last' = [op |-> "addExpense", error |-> error, ret |-> Null]
               /\ UNCHANGED pending
          ELSE /\ BagCardinality(pending) < MaxPending
               /\ pending' = pending (+) SetToBag({input})
               /\ last' = [op |-> "addExpense.select"]
    /\ UNCHANGED <<now, users, expenses>>

addExpenseCheck(input) ==
    /\ addExpenseCheckResolver(input)
    /\ UNCHANGED outside

\* second part of addExpense: the id, the INSERT ... RETURNING * and the
\* mapping of its row
addExpenseInsertResolver(input) ==
    /\ BagIn(input, pending)
    /\ LET row == [id |-> NewId(now), name |-> input.name, amount |-> input.amount,
                   description |-> input.description, user_id |-> input.userId,
                   created_at |-> CreatedAt(now)]
           dup == RowsWithId(expenses, row.id) # <<>>
       IN /\ expenses' = InsertRow(expenses, row)
          /\ last' = [op |-> "addExpense",
                      error |-> IF dup THEN StoreError ELSE NoError,
                      ret |-> IF dup THEN Null
                              ELSE ExpenseType(ExpenseRaw(DriverRow(row)))]
    /\ pending' = pending (-) SetToBag({input})
    /\ UNCHANGED <<now, users>>

addExpenseInsert(input) ==
    /\ addExpenseInsertResolver(input)
    /\ UNCHANGED outside

\* ---------------------------------------------------------------- totalExpense
totalExpenseResolver ==
    /\ last' = [op |-> "totalExpense", error |-> NoError,
                ret |-> SerializeFloat(
                            Number(NumericText(Coalesce(SqlSum(expenses), 0))))]
    /\ UNCHANGED <<now, users, expenses, pending>>

totalExpense ==
    /\ totalExpenseResolver
    /\ UNCHANGED outside

\* ---------------------------------------------------------------- deleteExpense
\* DELETE FROM expenses WHERE id = $1: the rows left
DeleteRowsAll(rows, id) ==
    IF RowsWithId(rows, id) # <<>> THEN <<>> ELSE rows

DeleteRows(rows, id) == SelectSeq(rows, LAMBDA r : r.id # id)

\* its rowCount
DeleteCount(rows, id) == Len(RowsWithId(rows, id))

deleteExpense(id) ==
    /\ expenses' = DeleteRows(expenses, id)
    /\ last' = [op |-> "deleteExpense", error |-> NoError,
                ret |-> (DeleteCount(expenses, id) > 0)]
    /\ UNCHANGED <<now, users, pending>>
    /\ UNCHANGED outside

\* ---------------------------------------------------------------- updateExpense
\* UPDATE expenses SET amount = $2, description = $3 WHERE id = $1: the table after
UpdateRowsNoWhere(rows, id, amount, description) ==
    IF RowsWithId(rows, id) = <<>> THEN rows
    ELSE [k \in 1..Len(rows) |->
            [rows[k] EXCEPT !.amount = amount, !.description = description]]

UpdateRowsUpsert(rows, id, amount, description) ==
    IF RowsWithId(rows, id) = <<>>
    THEN Append(rows, [id |-> id, name |-> "", amount |-> amount,
                       description |-> description, user_id |-> "",
                       created_at |-> 0])
    ELSE [k \in 1..Len(rows) |->
            IF rows[k].id = id
            THEN [rows[k] EXCEPT !.amount = amount, !.description = description]
            ELSE rows[k]]

UpdateRows(rows, id, amount, description) ==
    [k \in 1..Len(rows) |->
        IF rows[k].id = id
        THEN [rows[k] EXCEPT !.amount = amount, !.description = description]
        ELSE rows[k]]

updateExpense(id, amount, description) ==
    /\ expenses' = UpdateRows(expenses, id, amount, description)
    /\ LET result == RowsWithId(expenses', id)
       IN last' = [op |-> "updateExpense",
                   error |-> IF Len(result) = 0 THEN ExpenseNotFound ELSE NoError,
                   ret |-> IF Len(result) = 0 THEN Null
                           ELSE ExpenseType(ExpenseNum(DriverRow(result[1])))]
    /\ UNCHANGED <<now, users, pending>>
    /\ UNCHANGED outside

\* ---------------------------------------------------------------- queries
\* the rows of SELECT * FROM expenses, mapped
ExpensesResult(rows) ==
    [k \in DOMAIN rows |-> ExpenseType(ExpenseRaw(DriverRow(rows[k])))]

expensesResolver ==
    /\ \E rows \in AnyOrder(expenses) :
          last' = [op |-> "expenses", error |-> NoError,
                   ret |-> ExpensesResult(rows)]
    /\ UNCHANGED <<now, users, expenses, pending>>

expensesQuery ==
    /\ expensesResolver
    /\ UNCHANGED outside

\* SELECT ... FROM expenses WHERE user_id = $1 ORDER BY created_at DESC
SelectByUserAll(rows, userId) == OrderByCreatedAtDesc(rows)

SelectByUser(rows, userId) ==
    OrderByCreatedAtDesc(SelectSeq(rows, LAMBDA r : r.user_id = userId))

\* its rows, mapped
ExpensesByUserResult(rows, userId) ==
    LET found == SelectByUser(rows, userId)
    IN [k \in DOMAIN found |-> ExpenseType(ExpenseNum(DriverRow(found[k])))]

expensesByUserConsuming(userId) ==
    /\ last' = [op |-> "expensesByUser", error |-> NoError,
                ret |-> ExpensesByUserResult(expenses, userId)]
    /\ expenses' = SelectSeq(expenses, LAMBDA r : r.user_id # userId)
    /\ UNCHANGED <<now, users, pending>>
    /\ UNCHANGED outside

expensesByUser(userId) ==
    /\ last' = [op |-> "expensesByUser", error |-> NoError,
                ret |-> ExpensesByUserResult(expenses, userId)]
    /\ UNCHANGED <<now, users, expenses, pending>>
    /\ UNCHANGED outside

\* SELECT id, name FROM users ORDER BY created_at DESC, mapped
UsersResult(rows) ==
    LET found == OrderByCreatedAtDesc(rows)
    IN [k \in DOMAIN found |-> [id |-> found[k].id, name |-> found[k].name]]

usersQuery ==
    /\ last' = [op |-> "users", error |-> NoError, ret |-> UsersResult(users)]
    /\ UNCHANGED <<now, users, expenses, pending>>
    /\ UNCHANGED outside

\* ---------------------------------------------------------------- frontend
\* Number(amount) of the amount field: 0 for the empty text, else its decimal value
DigitValue(c) ==
    CASE c = "0" -> 0 [] c = "1" -> 1 [] c = "2" -> 2 [] c = "3" -> 3 [] c = "4" -> 4
      [] c = "5" -> 5 [] c = "6" -> 6 [] c = "7" -> 7 [] c = "8" -> 8 [] c = "9" -> 9

RECURSIVE ParseNumber(_)
ParseNumber(text) ==
    IF text = <<>> THEN 0
    ELSE 10 * ParseNumber(SubSeq(text, 1, Len(text) - 1)) + DigitValue(text[Len(text)])

\* the variables handleAdd sends
FormInput ==
    [name |-> ui.name, amount |-> ParseNumber(ui.amount),
     description |-> ui.description, userId |-> "u1"]

\* client.mutate of the client of ./graphql: a response that carries an error
\* rejects the promise (the client's default error policy)
MutateRejects(error) == error # NoError

\* the fields the selection of ADD_EXPENSE asks for
AddExpenseData(e) ==
    [addExpense |-> [id |-> e.id, name |-> e.name, amount |-> e.amount,
                     userId |-> e.userId]]

\* the user fills the form fields
setForm(name, amount, description) ==
    /\ ui' = [ui EXCEPT !.name = name, !.amount = amount,
                        !.description = description]
    /\ ui' # ui
    /\ UNCHANGED <<now, users, expenses, pending, last, messages>>

\* handleAdd up to the answer of the resolver's user lookup: a rejected
\* mutation ends the handler there
handleAddMutate ==
    /\ ui.pc = "idle"
    /\ addExpenseCheckResolver(FormInput)
    /\ ui' = IF last'.op = "addExpense" /\ MutateRejects(last'.error)
             THEN ui
             ELSE [ui EXCEPT !.pc = "mutate"]
    /\ UNCHANGED messages

\* the mutation settles; setLog(result.data)
handleAddSettle ==
    /\ ui.pc = "mutate"
    /\ \E input \in BagToSet(pending) : addExpenseInsertResolver(input)
    /\ ui' = IF MutateRejects(last'.error)
             THEN [ui EXCEPT !.pc = "idle"]
             ELSE [ui EXCEPT !.log = AddExpenseData(last'.ret), !.pc = "load"]
    /\ UNCHANGED messages

\* loadExpenses, leaving the rest of the component as in after
loadExpenses(after) ==
    /\ expensesResolver
    /\ ui' = [after EXCEPT !.expenses = last'.ret]
    /\ UNCHANGED messages

\* handleTotalExpenses, leaving the rest of the component as in after
handleTotalExpenses(after) ==
    /\ totalExpenseResolver
    /\ ui' = [after EXCEPT !.total = last'.ret]
    /\ UNCHANGED messages

\* await loadExpenses() of handleAdd
handleAddLoad ==
    /\ ui.pc = "load"
    /\ loadExpenses([ui EXCEPT !.pc = "total"])

\* await handleTotalExpenses() of handleAdd
handleAddTotal ==
    /\ ui.pc = "total"
    /\ handleTotalExpenses([ui EXCEPT !.pc = "clear"])

\* setName(""), setAmount(""), setDescription("")
handleAddClear ==
    /\ ui.pc = "clear"
    /\ ui' = [ui EXCEPT !.name = "", !.amount = <<>>, !.description = <<>>,
                        !.pc = "idle"]
    /\ UNCHANGED <<now, users, expenses, pending, last, messages>>

\* the two calls the effect starts when the component mounts
effectLoadExpenses ==
    /\ "loadExpenses" \in ui.effects
    /\ loadExpenses([ui EXCEPT !.effects = @ \ {"loadExpenses"}])

effectTotalExpenses ==
    /\ "handleTotalExpenses" \in ui.effects
    /\ handleTotalExpenses([ui EXCEPT !.effects = @ \ {"handleTotalExpenses"}])

\* ---------------------------------------------------------------- messages
\* messages.push(message)
MessagesUnshift(list, message) == <<message>> \o list

MessagesPush(list, message) == Append(list, message)

addMessage(text) ==
    /\ Len(messages) < MaxMessages
    /\ LET message == [id |-> NewId(now), text |-> text]
       IN /\ messages' = MessagesPush(messages, message)
          /\ last' = [op |-> "addMessage", error |-> NoError, ret |-> message]
    /\ UNCHANGED <<now, users, expenses, pending, ui>>

messagesQuery ==
    /\ last' = [op |-> "messages", error |-> NoError, ret |-> messages]
    /\ UNCHANGED <<now, users, expenses, pending, messages, ui>>

\* ---------------------------------------------------------------- next
AddExpenseInputs ==
    [name : ExpenseNames, amount : AddAmounts, description : Descriptions,
     userId : IdArgs]

Next ==
    \/ Tick
    \/ \E name \in UserNames : addUser(name)
    \/ \E input \in AddExpenseInputs : addExpenseCheck(input)
    \/ \E input \in BagToSet(pending) : addExpenseInsert(input)
    \/ totalExpense
    \/ \E id \in IdArgs : deleteExpense(id)
    \/ \E id \in IdArgs, amount \in Amounts, description \in Descriptions :
            updateExpense(id, amount, description)

Spec == Init /\ [][Next]_vars

\* the mutations of the store together with its listing queries
ReadNext ==
    \/ Next
    \/ expensesQuery
    \/ \E userId \in IdArgs : expensesByUser(userId)
    \/ usersQuery

SpecReads == Init /\ [][ReadNext]_vars

\* the message list alone
MessagesNext ==
    \/ Tick
    \/ \E text \in Texts : addMessage(text)
    \/ messagesQuery

SpecMessages == Init /\ [][MessagesNext]_vars

\* every resolver
AllNext ==
    \/ ReadNext
    \/ \E text \in Texts : addMessage(text)
    \/ messagesQuery

SpecAll == Init /\ [][AllNext]_vars

\* the App component in front of the resolvers it calls, with other clients
\* adding users; the table users may hold a row that was not made by addUser
SeededUsers == <<[id |-> "u1", name |-> "asha", created_at |-> 0]>>

InitFrontend ==
    /\ now = 1
    /\ users \in {<<>>, SeededUsers}
    /\ expenses = <<>>
    /\ pending = EmptyBag
    /\ last = [op |-> "init"]
    /\ messages = <<>>
    /\ ui = InitialUi

FrontendNext ==
    \/ Tick
    \/ \E name \in UserNames : addUser(name)
    \/ \E name \in ExpenseNames, amount \in AmountTexts, description \in Descriptions :
            setForm(name, amount, description)
    \/ handleAddMutate
    \/ handleAddSettle
    \/ handleAddLoad
    \/ handleAddTotal
    \/ handleAddClear
    \/ effectLoadExpenses
    \/ effectTotalExpenses

SpecFrontend == InitFrontend /\ [][FrontendNext]_vars

\* ================================================================ properties
\* a row with this id is stored
Stored(rows, id) == \E k \in DOMAIN rows : rows[k].id = id

\* the sum of amount over the stored expenses, row by row from the last
RECURSIVE SumUpTo(_)
SumUpTo(n) == IF n = 0 THEN 0 ELSE SumUpTo(n - 1) + expenses[n].amount

\* the same sum over the table after the step
RECURSIVE SumUpToNext(_)
SumUpToNext(n) == IF n = 0 THEN 0 ELSE SumUpToNext(n - 1) + expenses'[n].amount

\* length of a text without its leading and trailing whitespace
TrimmedLength(s) ==
    LET inked == {k \in DOMAIN s : s[k] \notin Whitespace}
    IN IF inked = {} THEN 0
       ELSE (CHOOSE hi \in inked : \A k \in inked : k <= hi)
            - (CHOOSE lo \in inked : \A k \in inked : lo <= k) + 1

\* the step is a step of addExpense, of updateExpense, of deleteExpense
AddExpenseStep == last'.op \in {"addExpense", "addExpense.select"}
UpdateExpenseStep == last'.op = "updateExpense"
DeleteExpenseStep == last'.op = "deleteExpense"

\* C1: whenever totalExpense answers, its answer is the sum of amount over the
\* expenses stored at that moment, and 0 when none is stored.
C1_TotalIsSum ==
    last.op = "totalExpense" =>
        /\ last.error = NoError
        /\ last.ret = SumUpTo(Len(expenses))
        /\ (expenses = <<>> => last.ret = 0)

C1_Witness ==
    /\ last.op = "totalExpense"
    /\ Len(expenses) = 2
    /\ last.ret = 100

\* C2: an addExpense whose userId is no stored user's id fails with
\* "User does not exist" whatever its amount and description are, and writes
\* nothing.
C2_UserCheckedFirst ==
    [][AddExpenseStep => \A input \in AddExpenseInputs :
          (~Stored(users, input.userId) /\ addExpenseCheck(input)) =>
              /\ last'.op = "addExpense"
              /\ last'.error = UserNotFound
              /\ expenses' = expenses
              /\ users' = users
              /\ pending' = pending]_vars

C2_Witness ==
    /\ last.op = "addExpense"
    /\ last.error = UserNotFound
    /\ users # <<>>
    /\ expenses # <<>>

\* C3: an addExpense for a stored user with amount <= 0 fails with "Amount
\* must be greater than 0", also when its description is too short, and the
\* stored expenses are as before.
C3_AmountRejected ==
    [][AddExpenseStep => \A input \in AddExpenseInputs :
          (addExpenseCheck(input) /\ Stored(users, input.userId)
                                  /\ input.amount <= 0) =>
              /\ last'.op = "addExpense"
              /\ last'.error = InvalidAmount
              /\ expenses' = expenses
              /\ pending' = pending]_vars

C3_Witness ==
    /\ last.op = "addExpense"
    /\ last.error = InvalidAmount
    /\ expenses # <<>>

\* C4: an addExpense for a stored user with amount > 0 and a description
\* shorter than 3 after trimming fails with the description error, and the
\* stored expenses are as before.
C4_DescriptionRejected ==
    [][AddExpenseStep => \A input \in AddExpenseInputs :
          (addExpenseCheck(input) /\ Stored(users, input.userId)
                                  /\ input.amount > 0
                                  /\ TrimmedLength(input.description) < 3) =>
              /\ last'.op = "addExpense"
              /\ last'.error = InvalidDescription
              /\ expenses' = expenses
              /\ pending' = pending]_vars

C4_Witness ==
    /\ last.op = "addExpense"
    /\ last.error = InvalidDescription
    /\ expenses # <<>>

\* C5: updateExpense re-validates the new values before it writes: on a
\* stored expense, a call with amount <= 0 fails with the amount error, a call
\* with a description shorter than 3 after trimming fails with the
\* description error, and in both cases no row changes.
C5_UpdateRevalidates ==
    [][UpdateExpenseStep => \A id \in IdArgs, amount \in Amounts, description \in Descriptions :
          (Stored(expenses, id) /\ updateExpense(id, amount, description)) =>
              /\ amount <= 0 =>
                    (last'.error = InvalidAmount /\ expenses' = expenses)
              /\ (amount > 0 /\ TrimmedLength(description) < 3) =>
                    (last'.error = InvalidDescription /\ expenses' = expenses)]_vars

\* C6: every stored expense has amount > 0.
C6_AmountsPositive ==
    \A k \in DOMAIN expenses : expenses[k].amount > 0

\* C7: every stored expense has a description of length >= 3 after trimming.
C7_DescriptionsLongEnough ==
    \A k \in DOMAIN expenses : TrimmedLength(expenses[k].description) >= 3

\* C8: updateExpense with an id that no stored expense has fails with
\* "Expense not found"; users, expenses and the total are as before.
C8_UpdateMissing ==
    [][UpdateExpenseStep => \A id \in IdArgs, amount \in Amounts, description \in Descriptions :
          (~Stored(expenses, id) /\ updateExpense(id, amount, description)) =>
              /\ last'.op = "updateExpense"
              /\ last'.error = ExpenseNotFound
              /\ users' = users
              /\ expenses' = expenses
              /\ SumUpToNext(Len(expenses')) = SumUpTo(Len(expenses))]_vars

C8_Witness ==
    /\ last.op = "updateExpense"
    /\ last.error = ExpenseNotFound
    /\ expenses # <<>>

\* C9: updateExpense on a stored expense sets its amount and description to
\* the given values and returns it; its id, name and userId, every other
\* expense and every user are as before.
C9_UpdateInPlace ==
    [][UpdateExpenseStep => \A id \in IdArgs, amount \in Amounts, description \in Descriptions :
          (Stored(expenses, id) /\ updateExpense(id, amount, description)) =>
              /\ last'.op = "updateExpense"
              /\ last'.error = NoError
              /\ users' = users
              /\ DOMAIN expenses' = DOMAIN expenses
              /\ \A k \in DOMAIN expenses :
                    IF expenses[k].id = id
                    THEN /\ expenses'[k].amount = amount
                         /\ expenses'[k].description = description
                         /\ expenses'[k].id = id
                         /\ expenses'[k].name = expenses[k].name
                         /\ expenses'[k].user_id = expenses[k].user_id
                         /\ last'.ret = [id |-> id,
                                         name |-> expenses[k].name,
                                         amount |-> amount,
                                         description |-> description,
                                         userId |-> expenses[k].user_id]
                    ELSE expenses'[k] = expenses[k]]_vars

C9_Witness ==
    /\ last.op = "updateExpense"
    /\ last.error = NoError
    /\ Len(expenses) = 2
    /\ \E k \in DOMAIN expenses :
          /\ expenses[k].id # last.ret.id
          /\ expenses[k].amount # last.ret.amount

\* C10: deleteExpense of a stored id returns true and removes that expense
\* and no other; of an id that is not stored it returns false, raises no error
\* and changes nothing.
C10_DeleteExactlyOne ==
    [][DeleteExpenseStep => \A id \in IdArgs :
          deleteExpense(id) =>
              /\ last'.op = "deleteExpense"
              /\ last'.error = NoError
              /\ users' = users
              /\ IF Stored(expenses, id)
                 THEN /\ last'.ret = TRUE
                      /\ ~Stored(expenses', id)
                      /\ Len(expenses') = Len(expenses) - 1
                      /\ \A k \in DOMAIN expenses :
                            expenses[k].id # id =>
                                \E j \in DOMAIN expenses' : expenses'[j] = expenses[k]
                 ELSE /\ last'.ret = FALSE
                      /\ expenses' = expenses]_vars

C10_Witness ==
    /\ last.op = "deleteExpense"
    /\ last.ret = TRUE
    /\ Len(expenses) = 1

\* C11: every stored expense's userId is the id of a stored user, and every
\* step that inserts an expense inserts it for a user stored at that moment,
\* also when other calls ran between its user lookup and its insert.
C11_UserOfExpenseStored ==
    /\ \A k \in DOMAIN expenses : Stored(users, expenses[k].user_id)
    /\ \A input \in BagToSet(pending) : Stored(users, input.userId)

C11_Witness ==
    /\ last.op = "addExpense"
    /\ last.error = NoError
    /\ Len(users) = 2
    /\ \E k \in DOMAIN expenses :
          /\ expenses[k].id = last.ret.id
          /\ expenses[k].user_id = users[1].id
          /\ expenses[k].created_at >= users[2].created_at

\* no two entries of a collection share an id
UniqueIds(list) ==
    \A j, k \in DOMAIN list : list[j].id = list[k].id => j = k

\* one list begins with the other
IsPrefix(short, long) ==
    /\ Len(short) <= Len(long)
    /\ \A k \in DOMAIN short : long[k] = short[k]

\* C12: no two users share an id, no two expenses share an id and no two
\* messages share an id, also when several creation calls read the same clock
\* value. (For users and messages, which are never deleted, this is also the
\* clause that an id is never given twice.)
C12_IdsUnique ==
    /\ UniqueIds(users)
    /\ UniqueIds(expenses)
    /\ UniqueIds(messages)

\* C16: every step leaves the message list a prefix of what it is after the
\* step; addMessage(text) adds exactly one entry, with that text, at the end
\* and returns it; messages returns the list as it is.
C16_MessagesAppendOnly ==
    [][/\ IsPrefix(messages, messages')
       /\ last'.op = "addMessage" =>
             \A text \in Texts : addMessage(text) =>
                /\ Len(messages') = Len(messages) + 1
                /\ messages'[Len(messages')].text = text
                /\ last'.error = NoError
                /\ last'.ret = messages'[Len(messages')]
       /\ last'.op # "addMessage" => messages' = messages
       /\ last'.op = "messages" => last'.ret = messages']_vars

C16_Witness ==
    /\ last.op = "messages"
    /\ Len(last.ret) = 3
    /\ last.ret[1].text # last.ret[2].text
    /\ last.ret[1].id = last.ret[2].id

\* the creation time of the stored expense with this id
CreatedAtOf(id) ==
    (CHOOSE r \in {expenses[k] : k \in DOMAIN expenses} : r.id = id).created_at

\* the entries of a result that have this id
EntriesWithId(list, id) == SelectSeq(list, LAMBDA e : e.id = id)

\* C13: expensesByUser(userId) returns the stored expenses with that userId,
\* each once and no other, the later created before the earlier created, and
\* the empty sequence with no error when there is none.
C13_ExpensesByUser ==
    [][last'.op = "expensesByUser" => \A userId \in IdArgs :
          expensesByUser(userId) =>
              LET ret == last'.ret
                  mine == {k \in DOMAIN expenses : expenses[k].user_id = userId}
              IN /\ last'.error = NoError
                 /\ Len(ret) = Cardinality(mine)
                 /\ mine = {} => ret = <<>>
                 /\ \A k \in mine : \E i \in DOMAIN ret :
                       ret[i] = [id |-> expenses[k].id,
                                 name |-> expenses[k].name,
                                 amount |-> expenses[k].amount,
                                 description |-> expenses[k].description,
                                 userId |-> userId]
                 /\ \A i, j \in DOMAIN ret :
                       i < j => CreatedAtOf(ret[i].id) > CreatedAtOf(ret[j].id)]_vars

C13_Witness ==
    /\ last.op = "expensesByUser"
    /\ Len(last.ret) = 2
    /\ last.ret[1].id = expenses[2].id
    /\ last.ret[1].amount # last.ret[2].amount

C17_UsersGrowAndList ==
    [][/\ IsPrefix(users, users')
       /\ last'.op = "addUser" =>
             \A name \in UserNames : addUser(name) =>
                /\ Len(users') = Len(users) + 1
                /\ users'[Len(users')].name = name
                /\ last'.error = NoError
                /\ last'.ret = [id |-> users'[Len(users')].id, name |-> name]
       /\ last'.op = "users" =>
             /\ Len(last'.ret) = Len(users)
             /\ \A k \in DOMAIN users :
                   last'.ret[Len(users) + 1 - k]
                      = [id |-> users[k].id, name |-> users[k].name]]_vars

\* C18: an update or a delete never makes an id stored that was not stored:
\* after deleteExpense(id) no expense has the id, and updateExpense on an id
\* that is not stored (deleted before, or never created) fails with
\* "Expense not found" and stores nothing.
C18_NoResurrection ==
    [][(UpdateExpenseStep \/ DeleteExpenseStep) => \A id \in IdArgs :
          /\ ~Stored(expenses, id) => ~Stored(expenses', id)
          /\ (DeleteExpenseStep /\ deleteExpense(id)) => ~Stored(expenses', id)
          /\ (UpdateExpenseStep /\ ~Stored(expenses, id)) =>
                \A amount \in Amounts, description \in Descriptions :
                   updateExpense(id, amount, description) =>
                      /\ last'.error = ExpenseNotFound
                      /\ last'.ret = Null
                      /\ Len(expenses') = Len(expenses)]_vars

\* the only stored expense was just deleted: every updateExpense step from
\* here is an update after a delete
C18_Witness ==
    /\ last.op = "deleteExpense"
    /\ last.ret = TRUE
    /\ expenses = <<>>
    /\ pending = EmptyBag

QueryOps == {"messages", "users", "expenses", "expensesByUser", "totalExpense"}

\* C15: a step of one of the queries messages, users, expenses,
\* expensesByUser and totalExpense leaves the stored users, the stored
\* expenses and the message list as they were.
C15_QueriesReadOnly ==
    [][last'.op \in QueryOps =>
          /\ users' = users
          /\ expenses' = expenses
          /\ messages' = messages]_vars

C15_Witness ==
    /\ last.op = "expensesByUser"
    /\ last.ret # <<>>
    /\ users # <<>>
    /\ messages # <<>>

\* C19: every input handleAdd sends has userId "u1"; while no stored user has
\* the id "u1", no step makes one (addUser's ids are decimal), no step stores
\* an expense, and a step of handleAdd fails with "User does not exist" and
\* leaves the component as it was: nothing reloaded, no form field cleared.
C19_HandleAddNeverPersists ==
    [][/\ \A input \in BagToSet(pending') : input.userId = "u1"
       /\ ~Stored(users, "u1") =>
             /\ ~Stored(users', "u1")
             /\ expenses' = expenses
             /\ pending' = pending
             /\ handleAddMutate =>
                   /\ last'.op = "addExpense"
                   /\ last'.error = UserNotFound
                   /\ last'.ret = Null
                   /\ ui' = ui
             /\ ui'.pc = ui.pc
             /\ ui'.log = ui.log]_vars

C19_Witness ==
    /\ ~Stored(users, "u1")
    /\ users # <<>>
    /\ last.op = "addExpense"
    /\ last.error = UserNotFound
    /\ ui.name = "rent"
    /\ ui.amount = <<"5", "0">>
    /\ ui.effects = {}
    /\ ui.expenses = <<>>
    /\ now = MaxClock

====
